---- MODULE Spec2Model ----
(***************************************************************************)
(* Model of column_selector.py: one run of main() as a state machine.      *)
(* Paths are sequences of one-character strings so that the os.path        *)
(* helpers, str.lower and str.endswith are computed as the code computes   *)
(* them.  A workbook on disk is a record: header row, data rows and the    *)
(* number format of every cell of rows 2.. of the active sheet.            *)
(***************************************************************************)
EXTENDS Integers, Sequences, FiniteSets, TLC

VARIABLES argv, disk, disk0, pc, exitCode, stdout, df, column_formats,
          selection, answers, selected_columns, filtered_df, output_file,
          handles, reads, writes, trace, raised

\* argv             sys.argv (line 47)
\* disk, disk0      path -> file, now and when the run started
\* pc, trace        the stage main is in, and the stages entered so far
\* exitCode         {} while running, else the exit status
\* stdout           the messages printed, in order
\* df .. output_file  the locals of main of the same names
\* selection        the entries checked in the prompt, in the order checked
\* handles          workbooks opened by load_workbook and not yet closed
\* reads, writes    paths opened for reading; paths written, in order
\* raised           <<stage, cause>> of the exception caught at line 125
vars == <<argv, disk, disk0, pc, exitCode, stdout, df, column_formats,
          selection, answers, selected_columns, filtered_df, output_file,
          handles, reads, writes, trace, raised>>

(* ------------------------------ bounds -------------------------------- *)
MaxCols == 3
MaxRows == 2

(* ------------------------------ strings ------------------------------- *)
Max(a, b) == IF a >= b THEN a ELSE b

\* str.rfind(ch): 1-based index of the last occurrence, 0 when absent
RFind(p, ch) ==
  LET hits == {i \in 1..Len(p) : p[i] = ch}
  IN IF hits = {} THEN 0 ELSE CHOOSE i \in hits : \A j \in hits : j <= i

LowerChar(c) ==
  CASE c = "X" -> "x" [] c = "L" -> "l" [] c = "S" -> "s" [] c = "A" -> "a"
    [] OTHER -> c

\* str.lower()
Lower(p) == [i \in 1..Len(p) |-> LowerChar(p[i])]

\* str.endswith(suffix)
EndsWith(p, suf) ==
  /\ Len(p) >= Len(suf)
  /\ \A i \in 1..Len(suf) : p[Len(p) - Len(suf) + i] = suf[i]

RECURSIVE RStripSep(_)
RStripSep(p) ==
  IF p # <<>> /\ p[Len(p)] = "/" THEN RStripSep(SubSeq(p, 1, Len(p) - 1)) ELSE p

\* os.path.dirname (posixpath)
dirname(p) ==
  LET head == SubSeq(p, 1, RFind(p, "/"))
  IN IF head # <<>> /\ \E i \in 1..Len(head) : head[i] # "/"
       THEN RStripSep(head) ELSE head

\* os.path.basename (posixpath)
basename(p) == SubSeq(p, RFind(p, "/") + 1, Len(p))

\* os.path.splitext (genericpath._splitext): <<root, ext>>; a name made of
\* leading dots only has no extension
splitext(p) ==
  LET sepIndex == RFind(p, "/")
      dotIndex == RFind(p, ".")
  IN IF dotIndex > sepIndex
        /\ \E k \in (sepIndex + 1)..(dotIndex - 1) : p[k] # "."
       THEN <<SubSeq(p, 1, dotIndex - 1), SubSeq(p, dotIndex, Len(p))>>
       ELSE <<p, <<>>>>

\* os.path.join(a, b) (posixpath)
join(a, b) ==
  IF b # <<>> /\ b[1] = "/" THEN b
  ELSE IF a = <<>> \/ a[Len(a)] = "/" THEN a \o b
  ELSE a \o <<"/">> \o b

DotXlsx == <<".", "x", "l", "s", "x">>
DotXls == <<".", "x", "l", "s">>
Filtered == <<"_", "f", "i", "l", "t", "e", "r", "e", "d">>

(* --------------------------- command lines ---------------------------- *)
Prog == <<"c", "s">>
A_xlsx == <<"a">> \o DotXlsx
D_A_xlsx == <<"d", "/", "a">> \o DotXlsx
A_xls == <<"a">> \o DotXls
A_XLS == <<"a", ".", "X", "L", "S">>
A_csv == <<"a", ".", "c", "s", "v">>
A_noext == <<"a">>
Hidden_xlsx == DotXlsx
A_filtered_xlsx == <<"a">> \o Filtered \o DotXlsx

InputPaths == {A_xlsx, D_A_xlsx, A_xls, A_XLS, A_csv, A_noext, Hidden_xlsx}

ArgvSet ==
  {<<Prog>>, <<Prog, A_xlsx, A_csv>>} \cup {<<Prog, p>> : p \in InputPaths}

(* ----------------------------- workbooks ------------------------------ *)
AllNames == <<"Name", "Revenue", "Margin", "Cost", "Date", "Qty">>
Formats == {"General", "", "0.00%"}
OtherFormat == "$#,##0.00"

Value(r, c) == 10 * r + c

\* a workbook file: row 1 is the header, data row r is sheet row r + 1;
\* fmt[r][c] is the number format of the cell at sheet row r + 1, column c
Workbook(kind, n, m, f2) ==
  [kind |-> kind,
   header |-> SubSeq(AllNames, 1, n),
   rows |-> [r \in 1..m |-> [c \in 1..n |-> Value(r, c)]],
   fmt |-> [r \in 1..Max(m, 1) |->
              IF r = 1 THEN f2 ELSE [c \in 1..n |-> OtherFormat]]]

Junk == [kind |-> "junk", header |-> <<>>, rows |-> <<>>, fmt |-> <<>>]

OldFile ==
  [kind |-> "xlsx", header |-> <<"Old">>, rows |-> <<<<99>>>>,
   fmt |-> <<<<"0.00%">>>>]

XlsxBooks ==
  UNION {{Workbook("xlsx", n, m, f2) : f2 \in [1..n -> Formats]} :
           <<n, m>> \in (1..MaxCols) \X (0..MaxRows)}

XlsBooks ==
  {Workbook("xls", n, m, [c \in 1..n |-> "General"]) :
     <<n, m>> \in (1..MaxCols) \X (0..MaxRows)}

Contents(p) ==
  IF p \in {A_xlsx, D_A_xlsx} THEN XlsxBooks \cup {Junk}
  ELSE IF p \in {A_xls, A_XLS} THEN XlsBooks
  ELSE IF p = Hidden_xlsx THEN {Workbook("xlsx", 1, 1, <<"0.00%">>)}
  ELSE {Junk}

\* the files on disk before the run: the input file or not, and a file
\* from an earlier run at a_filtered.xlsx
DiskSet(av) ==
  IF Len(av) # 2 THEN {<<>>}
  ELSE {<<>>}
       \cup {(av[2] :> c) : c \in Contents(av[2])}
       \cup (IF av[2] = A_xlsx
               THEN {(av[2] :> c) @@ (A_filtered_xlsx :> OldFile) :
                       c \in Contents(av[2])}
               ELSE {})

NoDf == [columns |-> <<>>, rows |-> <<>>]
NoAnswer == [none |-> TRUE, columns |-> <<>>]

(* ------------------------- library operations ------------------------- *)
\* pd.read_excel: the engine is chosen from the file's content
ReadExcelOk(file) == file.kind \in {"xlsx", "xls"}
read_excel(file) == [columns |-> file.header, rows |-> file.rows]

\* openpyxl.load_workbook: the name must carry one of openpyxl's extensions
\* (compared in lower case) and the file must be a zip workbook
SupportedFormats ==
  {DotXlsx, <<".", "x", "l", "s", "m">>, <<".", "x", "l", "t", "x">>,
   <<".", "x", "l", "t", "m">>}

LoadWorkbookOk(path, d) ==
  /\ path \in DOMAIN d
  /\ Lower(splitext(path)[2]) \in SupportedFormats
  /\ d[path].kind = "xlsx"

\* ws.cell(row, column).number_format; a cell the sheet does not hold is
\* created with the default format
CellFormat(ws, row, col) ==
  IF (row - 1) \in DOMAIN ws.fmt /\ col \in DOMAIN ws.fmt[row - 1]
    THEN ws.fmt[row - 1][col] ELSE "General"

\* DataFrame.to_excel(path, index=False): the writer engine is chosen from
\* the extension of the path
ToExcelOk(path) == splitext(path)[2] = DotXlsx

to_excel(frame) ==
  [kind |-> "xlsx",
   header |-> frame.columns,
   rows |-> frame.rows,
   fmt |-> [r \in 1..Len(frame.rows) |->
              [c \in 1..Len(frame.columns) |-> "General"]]]

(* --------------------------- program functions ------------------------ *)
\* position of a column label in a column index (labels are unique)
IndexOf(name, columns) ==
  CHOOSE i \in 1..Len(columns) :
    columns[i] = name /\ \A j \in 1..Len(columns) : columns[j] = name => j <= i

\* get_column_formats, lines 19-24: the format of the row-2 cell at the
\* column's 1-based position, kept when non-empty and not General
get_column_formats(ws, column_names) ==
  LET kept == {i \in 1..Len(column_names) :
                 CellFormat(ws, 2, i) # "" /\ CellFormat(ws, 2, i) # "General"}
  IN [name \in {column_names[i] : i \in kept} |->
        CellFormat(ws, 2, CHOOSE i \in kept :
                            /\ column_names[i] = name
                            /\ \A j \in kept : column_names[j] = name => j <= i)]

\* the loop of line 38 written as range(2, row_count + 1): the last data row
\* is left out
apply_column_formats_short(ws, column_names, formats, row_count) ==
  [ws EXCEPT !.fmt =
     [r \in 1..Max(Len(ws.fmt), row_count) |->
        [c \in 1..Max(Len(ws.header), Len(column_names)) |->
           IF /\ (r + 1) \in 2..row_count
              /\ c \in 1..Len(column_names)
              /\ column_names[c] \in DOMAIN formats
             THEN formats[column_names[c]]
             ELSE CellFormat(ws, r + 1, c)]]]

\* apply_column_formats, lines 35-39: the sheet after the loop
apply_column_formats(ws, column_names, formats, row_count) ==
  [ws EXCEPT !.fmt =
     [r \in 1..Max(Len(ws.fmt), row_count) |->
        [c \in 1..Max(Len(ws.header), Len(column_names)) |->
           IF /\ (r + 1) \in 2..(row_count + 1)
              /\ c \in 1..Len(column_names)
              /\ column_names[c] \in DOMAIN formats
             THEN formats[column_names[c]]
             ELSE CellFormat(ws, r + 1, c)]]]

\* line 68
HasExcelExt(path) ==
  EndsWith(Lower(path), DotXlsx) \/ EndsWith(Lower(path), DotXls)

\* the extension test of line 68 made before the existence test of line 63
ValidationExtFirst(av, existing) ==
  IF Len(av) # 2 THEN "usage"
  ELSE IF ~HasExcelExt(av[2]) THEN "badext"
  ELSE IF av[2] \notin existing THEN "notfound"
  ELSE "ok"

\* lines 47-70: the message of the first failing check, or "ok"
Validation(av, existing) ==
  IF Len(av) # 2 THEN "usage"
  ELSE IF av[2] \notin existing THEN "notfound"
  ELSE IF ~HasExcelExt(av[2]) THEN "badext"
  ELSE "ok"

\* line 99 without its second disjunct
IsCancelledNoneOnly(ans) == ans.none

\* line 99
IsCancelled(ans) == ans.none \/ ans.columns = <<>>

\* line 108 selecting by position (df.iloc[:, :k]) instead of by label
ProjectByPosition(frame, cols) ==
  [columns |-> cols,
   rows |-> [r \in 1..Len(frame.rows) |->
               [j \in 1..Len(cols) |-> frame.rows[r][j]]]]

\* line 108: df[selected_columns]
Project(frame, cols) ==
  [columns |-> cols,
   rows |-> [r \in 1..Len(frame.rows) |->
               [j \in 1..Len(cols) |->
                  frame.rows[r][IndexOf(cols[j], frame.columns)]]]]

\* line 114 without the _filtered suffix
OutputPathNoSuffix(path) ==
  join(dirname(path), splitext(basename(path))[1] \o splitext(basename(path))[2])

\* lines 111-114
OutputPath(path) ==
  LET base_path == dirname(path)
      base_name == basename(path)
      name_without_ext == splitext(base_name)[1]
      ext == splitext(base_name)[2]
  IN join(base_path, name_without_ext \o Filtered \o ext)

\* a handler that reports a formatting failure as a warning and goes on
ExceptHandlerWarn(stage) ==
  IF stage = "ApplyFormats"
    THEN [pc |-> "Done", exitCode |-> {0}, msg |-> "success"]
    ELSE [pc |-> "Failed", exitCode |-> {1}, msg |-> "error"]

\* lines 125-127
ExceptHandler(stage) == [pc |-> "Failed", exitCode |-> {1}, msg |-> "error"]

\* main without the call of line 121
NextStageNoApply(stage) ==
  CASE stage = "ValidateArgs" -> "ReadFile"
    [] stage = "ReadFile" -> "ExtractFormats"
    [] stage = "ExtractFormats" -> "PromptSelection"
    [] stage = "PromptSelection" -> "ProjectAndWrite"
    [] stage = "ProjectAndWrite" -> "Done"
    [] stage = "ApplyFormats" -> "Done"

\* the statement a stage hands control to when it returns normally
NextStage(stage) ==
  CASE stage = "ValidateArgs" -> "ReadFile"
    [] stage = "ReadFile" -> "ExtractFormats"
    [] stage = "ExtractFormats" -> "PromptSelection"
    [] stage = "PromptSelection" -> "ProjectAndWrite"
    [] stage = "ProjectAndWrite" -> "ApplyFormats"
    [] stage = "ApplyFormats" -> "Done"

input_file == argv[2]

(* ------------------------------- steps -------------------------------- *)
Goto(stage, msgs) ==
  /\ pc' = stage
  /\ trace' = Append(trace, stage)
  /\ stdout' = stdout \o msgs
  /\ exitCode' = IF stage = "Done" THEN {0} ELSE {}

Exit(stage, code, msgs) ==
  /\ pc' = stage
  /\ trace' = Append(trace, stage)
  /\ stdout' = stdout \o msgs
  /\ exitCode' = code

Raise(stage, cause, msgs) ==
  /\ raised' = <<stage, cause>>
  /\ Exit(ExceptHandler(stage).pc, ExceptHandler(stage).exitCode,
          msgs \o <<ExceptHandler(stage).msg>>)

Init ==
  /\ argv \in ArgvSet
  /\ disk \in DiskSet(argv)
  /\ disk0 = disk
  /\ pc = "ValidateArgs"
  /\ exitCode = {}
  /\ stdout = <<>>
  /\ df = NoDf
  /\ column_formats = <<>>
  /\ selection = <<>>
  /\ answers = NoAnswer
  /\ selected_columns = <<>>
  /\ filtered_df = NoDf
  /\ output_file = <<>>
  /\ handles = {}
  /\ reads = {}
  /\ writes = <<>>
  /\ trace = <<"ValidateArgs">>
  /\ raised = <<>>

\* lines 47-72
ValidateArgs ==
  /\ pc = "ValidateArgs"
  /\ LET v == Validation(argv, DOMAIN disk)
     IN IF v = "ok"
          THEN Goto(NextStage("ValidateArgs"), <<"reading">>)
          ELSE Exit("Failed", {1}, <<v>>)
  /\ UNCHANGED <<argv, disk, disk0, df, column_formats, selection, answers,
                 selected_columns, filtered_df, output_file, handles, reads,
                 writes, raised>>

\* lines 76-81
ReadFile ==
  /\ pc = "ReadFile"
  /\ reads' = reads \cup {input_file}
  /\ \E io \in {"ok", "fail"} :
       IF io = "ok" /\ ReadExcelOk(disk[input_file])
         THEN /\ df' = read_excel(disk[input_file])
              /\ Goto(NextStage("ReadFile"), <<"loaded">>)
              /\ UNCHANGED raised
         ELSE /\ Raise("ReadFile", IF io = "ok" THEN "input" ELSE "io", <<>>)
              /\ UNCHANGED df
  /\ UNCHANGED <<argv, disk, disk0, column_formats, selection, answers,
                 selected_columns, filtered_df, output_file, handles, writes>>

\* line 84 and get_column_formats, lines 14-27
ExtractFormats ==
  /\ pc = "ExtractFormats"
  /\ reads' = reads \cup {input_file}
  /\ \E io \in {"ok", "fail"} :
       IF io = "ok" /\ LoadWorkbookOk(input_file, disk)
         THEN /\ column_formats' = get_column_formats(disk[input_file], df.columns)
              /\ handles' = (handles \cup {input_file}) \ {input_file}
              /\ Goto(NextStage("ExtractFormats"), <<>>)
              /\ UNCHANGED raised
         ELSE /\ Raise("ExtractFormats", IF io = "ok" THEN "input" ELSE "io", <<>>)
              /\ UNCHANGED <<column_formats, handles>>
  /\ UNCHANGED <<argv, disk, disk0, df, selection, answers, selected_columns,
                 filtered_df, output_file, writes>>

\* the checkbox prompt of lines 87-96: the space bar on entry i appends i to
\* the answer under construction, or removes it when already checked
Toggle ==
  /\ pc = "PromptSelection"
  /\ \E i \in 1..Len(df.columns) :
       selection' = IF \E k \in 1..Len(selection) : selection[k] = i
                      THEN SelectSeq(selection, LAMBDA x : x # i)
                      ELSE Append(selection, i)
  /\ UNCHANGED <<argv, disk, disk0, pc, exitCode, stdout, df, column_formats,
                 answers, selected_columns, filtered_df, output_file, handles,
                 reads, writes, trace, raised>>

\* lines 96-105, given what inquirer.prompt returned
PromptReturn(ans) ==
  /\ answers' = ans
  /\ IF IsCancelled(ans)
       THEN /\ Exit("Cancelled", {0}, <<"cancel">>)
            /\ UNCHANGED selected_columns
       ELSE /\ selected_columns' = ans.columns
            /\ Goto(NextStage("PromptSelection"), <<"selected">>)
  /\ UNCHANGED <<argv, disk, disk0, df, column_formats, selection, filtered_df,
                 output_file, handles, reads, writes, raised>>

\* the operator presses enter: the checked entries, in the order checked
PromptConfirm ==
  /\ pc = "PromptSelection"
  /\ PromptReturn([none |-> FALSE,
                   columns |-> [k \in 1..Len(selection) |->
                                  df.columns[selection[k]]]])

\* the operator interrupts the prompt: inquirer.prompt returns None
PromptCancel ==
  /\ pc = "PromptSelection"
  /\ PromptReturn([none |-> TRUE, columns |-> <<>>])

\* the prompt raises (no terminal to draw on)
PromptError ==
  /\ pc = "PromptSelection"
  /\ Raise("PromptSelection", "io", <<>>)
  /\ UNCHANGED <<argv, disk, disk0, df, column_formats, selection, answers,
                 selected_columns, filtered_df, output_file, handles, reads,
                 writes>>

\* lines 108-118
ProjectAndWrite ==
  /\ pc = "ProjectAndWrite"
  /\ filtered_df' = Project(df, selected_columns)
  /\ output_file' = OutputPath(input_file)
  /\ \E io \in {"ok", "fail", "partial"} :
       IF io = "ok" /\ ToExcelOk(output_file')
         THEN /\ disk' = (output_file' :> to_excel(filtered_df')) @@ disk
              /\ writes' = Append(writes, output_file')
              /\ Goto(NextStage("ProjectAndWrite"), <<"saving">>)
              /\ UNCHANGED raised
         ELSE /\ Raise("ProjectAndWrite", IF io = "ok" THEN "input" ELSE "io",
                       <<"saving">>)
              /\ IF io = "partial"
                   THEN /\ disk' = (output_file' :> Junk) @@ disk
                        /\ writes' = Append(writes, output_file')
                   ELSE UNCHANGED <<disk, writes>>
  /\ UNCHANGED <<argv, disk0, df, column_formats, selection, answers,
                 selected_columns, handles, reads>>

\* line 121 and apply_column_formats, lines 30-42
ApplyFormats ==
  /\ pc = "ApplyFormats"
  /\ reads' = reads \cup {output_file}
  /\ \E io \in {"ok", "load", "save", "save_partial"} :
       IF io \in {"ok", "save", "save_partial"} /\ LoadWorkbookOk(output_file, disk)
         THEN IF io = "ok"
                THEN /\ disk' = (output_file :>
                                   apply_column_formats(disk[output_file],
                                     selected_columns, column_formats,
                                     Len(filtered_df.rows))) @@ disk
                     /\ writes' = Append(writes, output_file)
                     /\ handles' = (handles \cup {output_file}) \ {output_file}
                     /\ Goto(NextStage("ApplyFormats"), <<"success">>)
                     /\ UNCHANGED raised
                ELSE \* wb.save raises: line 42 is not reached
                     /\ handles' = handles \cup {output_file}
                     /\ Raise("ApplyFormats", "io", <<>>)
                     /\ IF io = "save_partial"
                          THEN /\ disk' = (output_file :> Junk) @@ disk
                               /\ writes' = Append(writes, output_file)
                          ELSE UNCHANGED <<disk, writes>>
         ELSE /\ Raise("ApplyFormats", IF io = "load" THEN "io" ELSE "input", <<>>)
              /\ UNCHANGED <<disk, writes, handles>>
  /\ UNCHANGED <<argv, disk0, df, column_formats, selection, answers,
                 selected_columns, filtered_df, output_file>>

Next ==
  \/ ValidateArgs
  \/ ReadFile
  \/ ExtractFormats
  \/ Toggle
  \/ PromptConfirm
  \/ PromptCancel
  \/ PromptError
  \/ ProjectAndWrite
  \/ ApplyFormats

Spec == Init /\ [][Next]_vars

(* ------------------------------- claims ------------------------------- *)
Range(q) == {q[i] : i \in 1..Len(q)}
Terminal == {"Done", "Cancelled", "Failed"}
Pipeline ==
  <<"ValidateArgs", "ReadFile", "ExtractFormats", "PromptSelection",
    "ProjectAndWrite", "ApplyFormats">>
D_A_filtered_xlsx == <<"d", "/", "a">> \o Filtered \o DotXlsx

\* the prompt has returned to line 97
PromptReturned ==
  /\ "PromptSelection" \in Range(trace)
  /\ pc # "PromptSelection"
  /\ (raised = <<>> \/ raised[1] # "PromptSelection")

\* the table write of line 118 has succeeded and nothing has damaged the file
Written == pc \in {"ApplyFormats", "Done"}

\* C1: once the table is written, the header row of the output file is the
\* selected names in the relative order they have in the source file,
\* whatever the order in which the operator checked them.
C1_OutputInSourceOrder ==
  Written =>
    disk[output_file].header =
      SelectSeq(disk0[input_file].header,
                LAMBDA name : name \in Range(selected_columns))

\* C2: when the prompt returns no answer or an answer with zero columns, the
\* run is Cancelled with exit code 0, nothing was written, and every file on
\* disk (the output path included, absent or not) is as before the run.
C2_CancelWritesNothing ==
  (PromptReturned /\ (answers.none \/ answers.columns = <<>>)) =>
    /\ pc = "Cancelled"
    /\ exitCode = {0}
    /\ writes = <<>>
    /\ disk = disk0

C2_Witness ==
  /\ pc = "Cancelled"
  /\ ~answers.none
  /\ answers.columns = <<>>
  /\ A_filtered_xlsx \in DOMAIN disk
  /\ disk[A_filtered_xlsx] = OldFile

\* C3: once the table is written, the output has as many data rows as the
\* input, every output cell is the input cell of the same row in the column
\* of that name, the header holds selected names only, and no value of an
\* unselected column occurs anywhere in the output.
C3_ProjectionKeepsRowsAndValues ==
  Written =>
    LET src == disk0[input_file]
        out == disk[output_file]
    IN /\ Len(out.rows) = Len(src.rows)
       /\ Len(out.header) = Len(selected_columns)
       /\ Range(out.header) = Range(selected_columns)
       /\ Range(out.header) \subseteq Range(src.header)
       /\ \A r \in 1..Len(out.rows) :
            /\ Len(out.rows[r]) = Len(out.header)
            /\ \A j \in 1..Len(out.header) :
                 out.rows[r][j] = src.rows[r][IndexOf(out.header[j], src.header)]
       /\ \A c \in 1..Len(src.header) :
            src.header[c] \notin Range(selected_columns) =>
              \A r \in 1..Len(src.rows), r2 \in 1..Len(out.rows) :
                src.rows[r][c] \notin Range(out.rows[r2])

C3_Witness ==
  /\ pc = "Done"
  /\ Len(df.rows) >= 2
  /\ Len(selected_columns) = 2
  /\ Len(df.columns) = 3
  /\ selected_columns[1] = df.columns[3]

\* C4: after Done, for every selected column whose source cell in row 2 has a
\* non-empty, non-General format, every data cell of that column in the
\* output (rows 2..row_count+1, at the column's output position) carries that
\* format.
C4_FormatOnEveryDataCell ==
  pc = "Done" =>
    LET src == disk0[input_file]
        out == disk[output_file]
    IN \A j \in 1..Len(selected_columns) :
         LET i == IndexOf(selected_columns[j], src.header)
             f == src.fmt[1][i]
         IN (f # "" /\ f # "General") =>
              \A r \in 1..Len(src.rows) :
                /\ r \in DOMAIN out.fmt
                /\ j \in DOMAIN out.fmt[r]
                /\ out.fmt[r][j] = f

C4_Witness ==
  /\ pc = "Done"
  /\ Len(disk0[input_file].rows) >= 2
  /\ \E j \in 1..Len(selected_columns) :
       LET i == IndexOf(selected_columns[j], disk0[input_file].header)
       IN /\ i # j
          /\ disk0[input_file].fmt[1][i] = "0.00%"
          /\ disk0[input_file].fmt[2][i] # "0.00%"
          /\ disk[output_file].fmt[2][j] = "0.00%"

\* C5: a run with an argument count other than one, a missing input path or
\* an unrecognized extension is over after validation with exit code 1, with
\* nothing read, no prompt shown and nothing written; the first failing check
\* in the order count, existence, extension names the message.
C5_ValidationFailsFirst ==
  LET bad == \/ Len(argv) # 2
             \/ argv[2] \notin DOMAIN disk0
             \/ ~HasExcelExt(argv[2])
      message == IF Len(argv) # 2 THEN "usage"
                 ELSE IF argv[2] \notin DOMAIN disk0 THEN "notfound"
                 ELSE "badext"
  IN (bad /\ pc # "ValidateArgs") =>
       /\ pc = "Failed"
       /\ exitCode = {1}
       /\ trace = <<"ValidateArgs", "Failed">>
       /\ stdout = <<message>>
       /\ reads = {}
       /\ writes = <<>>
       /\ disk = disk0

C5_Witness ==
  /\ pc = "Failed"
  /\ Len(argv) = 2
  /\ argv[2] \notin DOMAIN disk0
  /\ ~HasExcelExt(argv[2])
  /\ stdout = <<"notfound">>

\* C6: an error raised in ReadFile, ExtractFormats, ProjectAndWrite or
\* ApplyFormats ends the run in Failed with exit code 1: the stages up to the
\* failing one ran once each, none after it, and success is never reported.
C6_ErrorIsTerminal ==
  (raised # <<>> /\ raised[1] \in
       {"ReadFile", "ExtractFormats", "ProjectAndWrite", "ApplyFormats"}) =>
    /\ pc = "Failed"
    /\ exitCode = {1}
    /\ \E k \in 1..Len(Pipeline) :
         /\ Pipeline[k] = raised[1]
         /\ trace = SubSeq(Pipeline, 1, k) \o <<"Failed">>
    /\ stdout[Len(stdout)] = "error"
    /\ "success" \notin Range(stdout)
    /\ ~ENABLED Next

C6_Witness ==
  /\ raised = <<"ApplyFormats", "io">>
  /\ pc = "Failed"
  /\ output_file \in DOMAIN disk
  /\ disk[output_file] = to_excel(filtered_df)

\* C7: a run with exit code 0 is Done after the six stages in order, once
\* each, with the output written, or Cancelled right after the prompt with
\* nothing written; a run has an exit code exactly in Done, Cancelled and
\* Failed, where it stops, and Failed has exit code 1.
C7_ExitZeroPaths ==
  /\ exitCode = {0} =>
       \/ /\ pc = "Done"
          /\ trace = Pipeline \o <<"Done">>
          /\ Len(writes) = 2
          /\ output_file \in DOMAIN disk
          /\ disk[output_file].kind = "xlsx"
       \/ /\ pc = "Cancelled"
          /\ trace = SubSeq(Pipeline, 1, 4) \o <<"Cancelled">>
          /\ writes = <<>>
          /\ disk = disk0
  /\ (exitCode # {}) <=> (pc \in Terminal)
  /\ pc = "Failed" => exitCode = {1}
  /\ pc \in Terminal => ~ENABLED Next
  /\ pc \in Terminal \cup Range(Pipeline)
  /\ pc = trace[Len(trace)]

C7_Witness ==
  /\ pc = "Done"
  /\ exitCode = {0}
  /\ stdout[Len(stdout)] = "success"
  /\ A_filtered_xlsx \in DOMAIN disk0

\* C8: at every stage boundary, and when the error handler has run, no
\* workbook handle opened by a stage is still open.
C8_HandlesReleased == handles = {}

\* C9: a run on an existing, parseable file whose extension is .xlsx or .xls
\* (in either case), without an input/output fault of the environment, does
\* not end in Failed, and Done leaves an output file with the input's
\* extension.
C9_LegacyExtensionReachesDone ==
  (/\ pc \in Terminal
   /\ Len(argv) = 2
   /\ argv[2] \in DOMAIN disk0
   /\ Lower(splitext(argv[2])[2]) \in {DotXlsx, DotXls}
   /\ disk0[argv[2]].kind \in {"xlsx", "xls"}
   /\ (raised = <<>> \/ raised[2] # "io")) =>
    /\ pc # "Failed"
    /\ pc = "Done" => splitext(output_file)[2] = splitext(argv[2])[2]

\* C10: the input file is never written: the output path of every input path
\* a run is started with is that path with _filtered before the extension,
\* in the same directory, and differs from it; every write goes to that
\* path, and no other file appears or changes.
C10_InputNeverWritten ==
  /\ (pc = "ValidateArgs" /\ Len(argv) = 2) =>
       LET p == argv[2]
       IN /\ OutputPath(p) # p
          /\ dirname(OutputPath(p)) = dirname(p)
          /\ splitext(OutputPath(p))[2] = splitext(p)[2]
          /\ basename(OutputPath(p)) =
               splitext(basename(p))[1] \o Filtered \o splitext(basename(p))[2]
  /\ writes # <<>> =>
       LET expected == IF input_file = A_xlsx THEN A_filtered_xlsx
                       ELSE D_A_filtered_xlsx
       IN /\ input_file \in {A_xlsx, D_A_xlsx}
          /\ \A i \in 1..Len(writes) : writes[i] = expected /\ writes[i] # input_file
          /\ disk[input_file] = disk0[input_file]
          /\ DOMAIN disk = DOMAIN disk0 \cup {expected}
  /\ writes = <<>> => disk = disk0

C10_Witness ==
  /\ Len(writes) = 2
  /\ input_file = D_A_xlsx
  /\ writes[1] = D_A_filtered_xlsx
  /\ disk[D_A_filtered_xlsx].kind = "xlsx"

====
